---- MODULE Spec2Model ----
(***************************************************************************)
(* Model of the token-importance compressor of src/compression/scratch.py. *)
(*                                                                         *)
(* Representation.                                                         *)
(*  - A string is a sequence of whitespace-separated words; a word is the  *)
(*    sequence of the pieces the encoder's tokenizer cuts it into          *)
(*    ("tokens" is <<"token", "s">>, "world." is <<"world", ".">>).        *)
(*    Whitespace runs are not represented: every string is already in the  *)
(*    form re.sub(r'\s+', ' ', s).strip() leaves it in.                    *)
(*  - Scores are exact rationals: a sequence of integer numerators over a  *)
(*    denominator shared by the whole array.  Float rounding is not        *)
(*    modelled.  The 1e-8 guard of normalize() is kept as the flag eps of  *)
(*    the returned array (value = num / (den + 1e-8)); it is dropped in    *)
(*    the three per-signal normalisations, where it only perturbs every    *)
(*    entry of a signal by the same relative 1e-8.                         *)
(*  - The encoder, the sentence-embedding model and tiktoken are external: *)
(*    their outputs (attention received per position, cosine similarity    *)
(*    per position, cosine similarity per sentence) are inputs drawn from  *)
(*    bounded sets in Init.                                                *)
(***************************************************************************)
EXTENDS Integers, Sequences, FiniteSets, TLC

VARIABLES config, configAlt, text, query, target_ratio,
          attentions, hidden, sent_sims,
          pc, result, resultAlt, locals, chunks, chunk_results

(* the module-level singleton of scratch.py and what its callers got back *)
VARIABLES _default_compressor, constructed, returned

(* the benchmark loop of longbench.py *)
VARIABLES valid_data, name, i_item, correct, total_saved_pct,
          summary_results, visited, bench_pc

(* one call of _apply_position_bias *)
VARIABLES position_scores, position_result

compressVars == <<config, configAlt, text, query, target_ratio,
                  attentions, hidden, sent_sims,
                  pc, result, resultAlt, locals, chunks, chunk_results>>

singletonVars == <<_default_compressor, constructed, returned>>

benchVars == <<valid_data, name, i_item, correct, total_saved_pct,
               summary_results, visited, bench_pc>>

biasVars == <<position_scores, position_result>>

vars == <<compressVars, singletonVars, benchVars, biasVars>>

-----------------------------------------------------------------------------
(* Bounds *)

MaxWords == 2
MaxRaw == 1
MaxMinTokens == 2
MaxChunkWords == 5

-----------------------------------------------------------------------------
(* Generic helpers *)

(* F applied to the value of v: v is evaluated once, whatever the number  *)
(* of times F uses its argument.                                          *)
Bind(v, F(_)) == CHOOSE r \in {F(x) : x \in {v}} : TRUE

None == <<>>
Some(x) == <<x>>

Range(s) == {s[i] : i \in DOMAIN s}

SetMax(S) == CHOOSE x \in S : \A y \in S : y <= x
SetMin(S) == CHOOSE x \in S : \A y \in S : x <= y

IntMax(a, b) == IF a >= b THEN a ELSE b
IntMin(a, b) == IF a <= b THEN a ELSE b

(* s[lo] + ... + s[hi], by halves *)
RECURSIVE SumRange(_, _, _)
SumRange(s, lo, hi) ==
    IF lo > hi THEN 0
    ELSE IF lo = hi THEN s[lo]
    ELSE SumRange(s, lo, (lo + hi) \div 2) + SumRange(s, (lo + hi) \div 2 + 1, hi)

SumTo(s, n) == SumRange(s, 1, n)

SumSeq(s) == Bind(s, LAMBDA v : SumTo(v, Len(v)))

(* ss[lo] \o ... \o ss[hi], by halves *)
RECURSIVE FlattenRange(_, _, _)
FlattenRange(ss, lo, hi) ==
    IF lo > hi THEN <<>>
    ELSE IF lo = hi THEN ss[lo]
    ELSE FlattenRange(ss, lo, (lo + hi) \div 2) \o FlattenRange(ss, (lo + hi) \div 2 + 1, hi)

FlattenTo(ss, n) == FlattenRange(ss, 1, n)

Flatten(ss) == Bind(ss, LAMBDA v : FlattenTo(v, Len(v)))

(* the greatest common divisor of a set of naturals that are not all 0 *)
GcdAll(S) ==
    Bind(S, LAMBDA v :
        SetMax({d \in 1..SetMax(v) : \A x \in v : x % d = 0}))

SeqsUpTo(S, n) == UNION {[1..m -> S] : m \in 0..n}

(* Python indexing: a negative index counts from the end. *)
PyIndex(s, i) == IF i < 0 THEN s[Len(s) + i + 1] ELSE s[i + 1]

(* s cut into the runs that begin at the positions in starts *)
RunsFrom(s, starts) ==
    Bind(starts, LAMBDA st :
        LET Start(k) == CHOOSE i \in st : Cardinality({j \in st : j <= i}) = k
        IN  [k \in 1..Cardinality(st) |->
                SubSeq(s, Start(k),
                       IF k = Cardinality(st) THEN Len(s) ELSE Start(k + 1) - 1)])

-----------------------------------------------------------------------------
(* Fixed-point units *)

WeightDen == 10
RatioDen == 100
ThresholdDen == 10
BoostDen == 10
PenaltyDen == 10
ChunkFillNum == 8
ChunkFillDen == 10

-----------------------------------------------------------------------------
(* CompressorConfig defaults *)

DefaultAttentionWeight == 4
DefaultSemanticWeight == 3
DefaultQueryWeight == 3
DefaultTargetRatio == 34
DefaultMinTokens == 50
DefaultHardThreshold == 0
DefaultChunkSize == 450
PositionBoostStart == 12
PositionBoostEnd == 11
PositionBiasFloor == 10

CompressorConfig ==
    [use_query_aware |-> TRUE,
     attention_weight |-> DefaultAttentionWeight,
     semantic_weight |-> DefaultSemanticWeight,
     query_weight |-> DefaultQueryWeight,
     target_ratio |-> DefaultTargetRatio,
     min_tokens |-> DefaultMinTokens,
     hard_threshold |-> DefaultHardThreshold,
     chunk_size |-> DefaultChunkSize,
     use_position_bias |-> TRUE,
     position_boost_start |-> PositionBoostStart,
     position_boost_end |-> PositionBoostEnd]

-----------------------------------------------------------------------------
(* Strings, the encoder's tokenizer and the reference token counter *)

Hello == <<"hello">>
TokensWord == <<"token", "s">>
WorldDot == <<"world", ".">>
Vocab == {Hello, TokensWord, WorldDot}
ChunkVocab == {Hello, WorldDot}

CLS == "[CLS]"
SEP == "[SEP]"
all_special_ids == {CLS, SEP}

(* re.search(r'[a-zA-Z0-9]', tok) *)
HasAlnum(tok) == tok # "."
(* tok.startswith("##") *)
IsContinuation(tok) == tok = "##s"
(* tok.replace("##", "") *)
StripContinuation(tok) == IF tok = "##s" THEN "s" ELSE tok
(* len(tok.replace("##", "")) *)
CleanLen(tok) == CASE tok = "##s" -> 1
                   [] tok = "." -> 1
                   [] OTHER -> 5

(* WordPiece: the first piece of a word is a token of its own, a later    *)
(* letter piece is a "##" continuation, punctuation is its own token.     *)
WordTokens(w) ==
    [i \in 1..Len(w) |->
        IF i = 1 \/ w[i] = "." THEN w[i] ELSE "##s"]

ContentTokens(s) == Flatten([j \in 1..Len(s) |-> WordTokens(s[j])])

(* self.tokenizer(text, truncation=True, max_length=chunk_size) followed  *)
(* by convert_ids_to_tokens: boundary tokens around the content, the      *)
(* content cut so that the whole sequence has at most max_length tokens.  *)
Tokenize(s, max_length) ==
    Bind(ContentTokens(s), LAMBDA content :
        <<CLS>> \o SubSeq(content, 1, IntMin(Len(content), IntMax(max_length - 2, 0)))
                \o <<SEP>>)

(* tokenizer.convert_tokens_to_string followed by the whitespace clean-up *)
(* of compress: a continuation is glued to the word before it without its *)
(* marker, punctuation is glued to the word before it, every other token  *)
(* starts a new word; the first token always starts a word, as it is.     *)
GluedToPrevious(tok) == IsContinuation(tok) \/ tok = "."

convert_tokens_to_string(toks) ==
    Bind(toks, LAMBDA t :
    Bind(RunsFrom(t, {i \in 1..Len(t) : i = 1 \/ ~GluedToPrevious(t[i])}), LAMBDA runs :
        [k \in 1..Len(runs) |->
            [m \in 1..Len(runs[k]) |->
                IF m = 1 THEN runs[k][m] ELSE StripContinuation(runs[k][m])]]))

(* len(tiktoken_encoder.encode(text)): one token per piece, three for the *)
(* bracketed surface form of a boundary token.                            *)
PieceCount(p) == IF p \in all_special_ids THEN 3 ELSE 1

count_tokens(s) ==
    Bind(Flatten(s), LAMBDA pieces :
        SumSeq([i \in 1..Len(pieces) |-> PieceCount(pieces[i])]))

(* len(s.split()) *)
WordCount(s) == Len(s)

(* " ".join(parts): empty parts add no word. *)
JoinSpace(parts) == Flatten(parts)

(* re.split(r'(?<=[.!?])\s+', s): cut after every word that ends in       *)
(* terminal punctuation and is followed by another word; the empty string *)
(* gives one empty sentence.                                              *)
EndsSentence(w) == w[Len(w)] = "."

SplitSentences(s) ==
    Bind(s, LAMBDA t :
        IF t = <<>> THEN <<<<>>>>
        ELSE RunsFrom(t, {i \in 1..Len(t) : i = 1 \/ EndsSentence(t[i - 1])}))

-----------------------------------------------------------------------------
(* Score arrays: value i is num[i] / den, or num[i] / (den + 1e-8) when   *)
(* eps is set.                                                            *)

ScoreArray(num, den, eps) == [num |-> num, den |-> den, eps |-> eps]
Scalar(num, den, eps) == [num |-> num, den |-> den, eps |-> eps]
ScoreAt(scores, i) == Scalar(scores.num[i], scores.den, scores.eps)

(* a >= b for two such values, the guard taken as a positive infinitesimal *)
Geq(a, b) ==
    LET x == a.num * b.den - b.num * a.den
        y == (IF a.eps THEN b.num ELSE 0) - (IF b.eps THEN a.num ELSE 0)
    IN  x > 0 \/ (x = 0 /\ y <= 0)

(* Python max(a, b): b only when it is strictly greater *)
PyMax(a, b) == IF ~Geq(a, b) THEN b ELSE a

(* normalize(x): all ones when constant, else (x - min) / (max - min + 1e-8); *)
(* the fractions are reduced, so that equal arrays are equal records.        *)
normalize(x) ==
    Bind(x.num, LAMBDA num :
    Bind(SetMin(Range(num)), LAMBDA mn :
        IF SetMax(Range(num)) = mn
        THEN ScoreArray([i \in DOMAIN num |-> 1], 1, FALSE)
        ELSE Bind(GcdAll({num[i] - mn : i \in DOMAIN num}), LAMBDA g :
                 ScoreArray([i \in DOMAIN num |-> (num[i] - mn) \div g],
                            (SetMax(Range(num)) - mn) \div g, TRUE))))

(* np.sort(scores)[::-1] on the numerators: entry k is the value with    *)
(* fewer than k values above it and at least k values not below it.      *)
SortDescending(s) ==
    Bind(s, LAMBDA v :
        [k \in 1..Len(v) |->
            CHOOSE x \in Range(v) :
                /\ Cardinality({i \in DOMAIN v : v[i] > x}) < k
                /\ Cardinality({i \in DOMAIN v : v[i] >= x}) >= k])

-----------------------------------------------------------------------------
(* TokenImportanceScorer *)

(* _get_attention_scores / _get_semantic_scores: one raw score per token, *)
(* read off the encoder's output for this call.                           *)
_get_attention_scores(tokens) ==
    ScoreArray([i \in 1..Len(tokens) |-> attentions[i]], 1, FALSE)

_get_semantic_scores(tokens) ==
    ScoreArray([i \in 1..Len(tokens) |-> hidden[i]], 1, FALSE)

(* clean_tok in reconstructed: boundary tokens are upper case in          *)
(* reconstructed and lower case in clean_tok, so they never match.        *)
InReconstructed(tok, reconstructed) ==
    tok \notin all_special_ids /\ tok \in Range(reconstructed)

(* the inner loop of _get_query_scores: tokens_in_sent *)
RECURSIVE TokensInSent(_, _, _, _, _)
TokensInSent(toks, pos, reconstructed, tokens_in_sent, sent_len) ==
    IF pos > Len(toks) THEN tokens_in_sent
    ELSE IF InReconstructed(toks[pos], reconstructed) \/ CleanLen(toks[pos]) < 2
         THEN TokensInSent(toks, pos + 1, reconstructed, tokens_in_sent + 1, sent_len)
         ELSE IF Len(reconstructed) + 1 >= sent_len
              THEN tokens_in_sent + 1
              ELSE Bind(Append(reconstructed, toks[pos]), LAMBDA r :
                       TokensInSent(toks, pos + 1, r, tokens_in_sent + 1, sent_len))

(* the outer loop of _get_query_scores; token_idx counts from 0 *)
RECURSIVE AssignSentences(_, _, _, _, _, _)
AssignSentences(toks, sentences, sims, sent_idx, token_idx, scores) ==
    IF sent_idx > Len(sentences)
    THEN [i \in 1..Len(toks) |-> IF i > token_idx THEN SumSeq(sims) ELSE scores[i]]
    ELSE Bind(TokensInSent(SubSeq(toks, token_idx + 1, Len(toks)), 1, <<>>, 0,
                           WordCount(sentences[sent_idx])), LAMBDA tokens_in_sent :
         Bind(IntMin(token_idx + IntMax(tokens_in_sent, 1), Len(toks)), LAMBDA end_idx :
         Bind([i \in 1..Len(toks) |->
                  IF i > token_idx /\ i <= end_idx
                  THEN sims[sent_idx] * Len(sentences)
                  ELSE scores[i]], LAMBDA assigned :
             IF end_idx >= Len(toks) THEN assigned
             ELSE AssignSentences(toks, sentences, sims, sent_idx + 1, end_idx, assigned))))

(* _get_query_scores; the scores are in units of 1 / len(sentences), so   *)
(* that the mean of the sentence scores is their sum.                     *)
_get_query_scores(cfg, s, tokens) ==
    IF ~cfg.use_query_aware
    THEN ScoreArray([i \in 1..Len(tokens) |-> 0], 1, FALSE)
    ELSE Bind(SplitSentences(s), LAMBDA sentences :
             ScoreArray(AssignSentences(tokens, sentences,
                                        [j \in 1..Len(sentences) |-> sent_sims[j]],
                                        1, 0, [i \in 1..Len(tokens) |-> 0]),
                        Len(sentences), FALSE))

(* variant: the end region is as long as the start region *)
PositionBiasSymmetric(cfg, scores) ==
    LET n == Len(scores.num)
        start_region == n \div 10
        end_region == n - n \div 10
    IN  IF n < PositionBiasFloor THEN scores
        ELSE ScoreArray(
                 [i \in 1..n |->
                     scores.num[i] *
                     (IF i - 1 >= end_region THEN cfg.position_boost_end
                      ELSE IF i - 1 < start_region THEN cfg.position_boost_start
                      ELSE BoostDen)],
                 scores.den * BoostDen, scores.eps)

(* _apply_position_bias *)
_apply_position_bias(cfg, scores) ==
    LET n == Len(scores.num)
        start_region == n \div 10
        end_region == (n * 9) \div 10
    IN  IF n < PositionBiasFloor THEN scores
        ELSE ScoreArray(
                 [i \in 1..n |->
                     scores.num[i] *
                     (IF i - 1 >= end_region THEN cfg.position_boost_end
                      ELSE IF i - 1 < start_region THEN cfg.position_boost_start
                      ELSE BoostDen)],
                 scores.den * BoostDen, scores.eps)

(* the weights multiplied into the signals, as fractions num / den *)
QueryFusionWeights(cfg) ==
    <<<<cfg.attention_weight, WeightDen>>,
      <<cfg.semantic_weight, WeightDen>>,
      <<cfg.query_weight, WeightDen>>>>

PlainFusionWeights(cfg) ==
    LET total == cfg.attention_weight + cfg.semantic_weight
    IN  <<<<cfg.attention_weight, total>>, <<cfg.semantic_weight, total>>>>

(* the weighted sum of normalised signals, over a common denominator *)
RECURSIVE DenProduct(_, _)
DenProduct(signals, n) ==
    IF n = 0 THEN 1 ELSE signals[n].den * DenProduct(signals, n - 1)

Fuse(weights, signals) ==
    Bind(DenProduct(signals, Len(signals)), LAMBDA all :
        ScoreArray(
            [i \in 1..Len(signals[1].num) |->
                SumSeq([j \in 1..Len(signals) |->
                           weights[j][1] * signals[j].num[i] * (all \div signals[j].den)])],
            weights[1][2] * all, FALSE))

(* the penalties of score_tokens, in tenths *)
Penalty(tok) ==
    IF tok \in all_special_ids THEN 0
    ELSE IF ~HasAlnum(tok) THEN 5
    ELSE IF IsContinuation(tok) THEN 8
    ELSE PenaltyDen

Penalize(tokens, scores) ==
    ScoreArray([i \in 1..Len(tokens) |-> scores.num[i] * Penalty(tokens[i])],
               scores.den * PenaltyDen, scores.eps)

(* variant: any query that is not None counts, the empty string too *)
QueryNotNone(q) == q # None

(* if query: a query that is neither None nor the empty string *)
QueryGiven(q) == q # None /\ q[1] # <<>>

(* the normalised signals that enter the fusion *)
Signals(cfg, s, q, tokens) ==
    IF QueryGiven(q) /\ cfg.use_query_aware
    THEN Bind(_get_query_scores(cfg, s, tokens), LAMBDA query_scores :
             <<normalize(_get_attention_scores(tokens)),
               normalize(_get_semantic_scores(tokens)),
               normalize(query_scores)>>)
    ELSE <<normalize(_get_attention_scores(tokens)),
           normalize(_get_semantic_scores(tokens))>>

FusionWeights(cfg, q) ==
    IF QueryGiven(q) /\ cfg.use_query_aware
    THEN QueryFusionWeights(cfg) ELSE PlainFusionWeights(cfg)

score_tokens(cfg, s, q) ==
    IF ~(QueryGiven(q) /\ cfg.use_query_aware)
          /\ cfg.attention_weight + cfg.semantic_weight = 0
    THEN [error |-> "ZeroDivisionError"]
    ELSE Bind(Tokenize(s, cfg.chunk_size), LAMBDA tokens :
         Bind(Signals(cfg, s, q, tokens), LAMBDA signals :
         Bind(Fuse(FusionWeights(cfg, q), signals), LAMBDA fused :
         Bind(IF cfg.use_position_bias
              THEN _apply_position_bias(cfg, fused) ELSE fused, LAMBDA biased :
         Bind(Penalize(tokens, biased), LAMBDA penalized :
             [error |-> "none",
              scores |-> normalize(penalized),
              tokens |-> tokens,
              weights |-> FusionWeights(cfg, q),
              with_query |-> QueryGiven(q) /\ cfg.use_query_aware])))))

-----------------------------------------------------------------------------
(* ScratchCompressor *)

Zero == Scalar(0, 1, FALSE)
HardThreshold(cfg) == Scalar(cfg.hard_threshold, ThresholdDen, FALSE)

(* target_ratio or self.config.target_ratio *)
EffectiveTarget(cfg, ratio) ==
    IF ratio = None \/ ratio[1] = 0 THEN cfg.target_ratio ELSE ratio[1]

(* variant: min in place of max *)
KeepCountMin(cfg, orig_tokens, target) ==
    IntMin(cfg.min_tokens, (orig_tokens * target) \div RatioDen)

(* max(min_tokens, int(orig_tokens * target)) *)
KeepCount(cfg, orig_tokens, target) ==
    IntMax(cfg.min_tokens, (orig_tokens * target) \div RatioDen)

(* the keep threshold of compress *)
Threshold(cfg, scores, keep_count) ==
    IF keep_count >= Len(scores.num) THEN Zero
    ELSE Bind(SortDescending(scores.num), LAMBDA sorted_scores :
             PyMax(Scalar(PyIndex(sorted_scores, keep_count - 1),
                          scores.den, scores.eps),
                   HardThreshold(cfg)))

(* variant: a score equal to the threshold is not enough *)
AtOrAboveStrict(scores, threshold, i) ==
    {j \in i..Len(scores.num) : ~Geq(threshold, ScoreAt(scores, j))}

(* the positions from i on whose score reaches the threshold *)
AtOrAbove(scores, threshold, i) ==
    {j \in i..Len(scores.num) : Geq(ScoreAt(scores, j), threshold)}

(* variant: the kept positions in descending score order *)
KeptIndicesByScore(scores, threshold, i) ==
    Bind(AtOrAbove(scores, threshold, i), LAMBDA S :
        LET Before(a, b) == \/ scores.num[a] > scores.num[b]
                            \/ scores.num[a] = scores.num[b] /\ a < b
        IN  [k \in 1..Cardinality(S) |->
                (CHOOSE b \in S : Cardinality({a \in S : Before(a, b)}) = k - 1) - 1])

(* [i for i, s in enumerate(scores) if s >= threshold]; indices from 0 *)
KeptIndices(scores, threshold, i) ==
    Bind(AtOrAbove(scores, threshold, i), LAMBDA S :
        [k \in 1..Cardinality(S) |->
            (CHOOSE b \in S : Cardinality({a \in S : a < b}) = k - 1) - 1])

(* comp_tokens / orig_count if orig_count > 0 else 1.0, as <<num, den>> *)
CompressionRatio(comp_tokens, orig_count) ==
    IF orig_count > 0 THEN <<comp_tokens, orig_count>> ELSE <<1, 1>>

Raised(e) == [status |-> "raised", error |-> e]

CompressionResult(original_text, compressed_text, original_tokens, compressed_tokens, token_scores, kept_indices, compression_ratio) ==
    [status |-> "returned",
     original_text |-> original_text,
     compressed_text |-> compressed_text,
     original_tokens |-> original_tokens,
     compressed_tokens |-> compressed_tokens,
     token_scores |-> token_scores,
     kept_indices |-> kept_indices,
     compression_ratio |-> compression_ratio]

(* the local variables of one compress call *)
CompressLocals(cfg, s, q, ratio) ==
    Bind(score_tokens(cfg, s, q), LAMBDA scored :
        IF scored.error # "none" THEN [error |-> scored.error]
        ELSE Bind(KeepCount(cfg, Len(scored.tokens), EffectiveTarget(cfg, ratio)),
                  LAMBDA keep_count :
             Bind(Threshold(cfg, scored.scores, keep_count), LAMBDA threshold :
                 [error |-> "none",
                  tokens |-> scored.tokens,
                  scores |-> scored.scores,
                  weights |-> scored.weights,
                  with_query |-> scored.with_query,
                  orig_tokens |-> Len(scored.tokens),
                  keep_count |-> keep_count,
                  threshold |-> threshold,
                  kept_indices |-> KeptIndices(scored.scores, threshold, 1)])))

compress(cfg, s, q, ratio) ==
    Bind(CompressLocals(cfg, s, q, ratio), LAMBDA l :
        IF l.error # "none" THEN Raised(l.error)
        ELSE Bind(convert_tokens_to_string(
                      [j \in 1..Len(l.kept_indices) |-> l.tokens[l.kept_indices[j] + 1]]),
                  LAMBDA compressed :
             Bind(count_tokens(compressed), LAMBDA comp_tokens :
             Bind(count_tokens(s), LAMBDA orig_count :
                 CompressionResult(s, compressed, orig_count, comp_tokens,
                                   l.scores, l.kept_indices,
                                   CompressionRatio(comp_tokens, orig_count))))))

(* the state of the packing loop *)
Packing(packed, current_chunk, current_len) ==
    [packed |-> packed, current_chunk |-> current_chunk, current_len |-> current_len]

(* variant: the open chunk is appended even when it holds no sentence *)
CloseChunkAlways(packed, current_chunk) == Append(packed, current_chunk)

(* if current_chunk: chunks.append(...) *)
CloseChunk(packed, current_chunk) ==
    IF current_chunk # <<>> THEN Append(packed, current_chunk) ELSE packed

(* variant: the open chunk is not closed when a sentence overflows it *)
RECURSIVE PackSentencesDropOpen(_, _, _, _, _)
PackSentencesDropOpen(cfg, sentences, packed, current_chunk, current_len) ==
    IF sentences = <<>> THEN CloseChunk(packed, current_chunk)
    ELSE Bind(Tail(sentences), LAMBDA rest :
         Bind(IF (current_len + WordCount(Head(sentences))) * ChunkFillDen
                     > cfg.chunk_size * ChunkFillNum
              THEN Packing(packed, <<Head(sentences)>>, WordCount(Head(sentences)))
              ELSE Packing(packed, Append(current_chunk, Head(sentences)),
                           current_len + WordCount(Head(sentences))), LAMBDA st :
             PackSentencesDropOpen(cfg, rest, st.packed, st.current_chunk, st.current_len)))

(* variant: the test looks at the open chunk only, not at the sentence *)
RECURSIVE PackSentencesIgnoreSentence(_, _, _, _, _)
PackSentencesIgnoreSentence(cfg, sentences, packed, current_chunk, current_len) ==
    IF sentences = <<>> THEN CloseChunk(packed, current_chunk)
    ELSE Bind(Tail(sentences), LAMBDA rest :
         Bind(IF current_len * ChunkFillDen > cfg.chunk_size * ChunkFillNum
              THEN Packing(CloseChunk(packed, current_chunk),
                           <<Head(sentences)>>, WordCount(Head(sentences)))
              ELSE Packing(packed, Append(current_chunk, Head(sentences)),
                           current_len + WordCount(Head(sentences))), LAMBDA st :
             PackSentencesIgnoreSentence(cfg, rest, st.packed, st.current_chunk, st.current_len)))

(* the sentence packing of compress_chunks; state is the list of chunks   *)
(* closed so far, the sentences of the open chunk and its word count.     *)
RECURSIVE PackSentences(_, _, _, _, _)
PackSentences(cfg, sentences, packed, current_chunk, current_len) ==
    IF sentences = <<>> THEN CloseChunk(packed, current_chunk)
    ELSE Bind(Tail(sentences), LAMBDA rest :
         Bind(IF (current_len + WordCount(Head(sentences))) * ChunkFillDen
                     > cfg.chunk_size * ChunkFillNum
              THEN Packing(CloseChunk(packed, current_chunk),
                           <<Head(sentences)>>, WordCount(Head(sentences)))
              ELSE Packing(packed, Append(current_chunk, Head(sentences)),
                           current_len + WordCount(Head(sentences))), LAMBDA st :
             PackSentences(cfg, rest, st.packed, st.current_chunk, st.current_len)))

(* the sentences of every chunk, then the chunks as strings *)
ChunkSentences(cfg, s) ==
    Bind(SplitSentences(s), LAMBDA sentences :
        PackSentences(cfg, sentences, <<>>, <<>>, 0))

Chunks(cfg, s) ==
    Bind(ChunkSentences(cfg, s), LAMBDA packed :
        [c \in 1..Len(packed) |-> JoinSpace(packed[c])])

(* the per-chunk results, in chunk order; stops at the first exception *)
RECURSIVE CompressEach(_, _, _, _)
CompressEach(cfg, chs, q, ratio) ==
    IF chs = <<>> THEN <<>>
    ELSE Bind(compress(cfg, Head(chs), q, ratio), LAMBDA r :
             IF r.status = "raised" THEN <<r>>
             ELSE Bind(Tail(chs), LAMBDA rest :
                      <<r>> \o CompressEach(cfg, rest, q, ratio)))

EmptyScores == ScoreArray(<<>>, 1, FALSE)

(* variant: the chunk texts joined last chunk first *)
CombineChunksReversed(s, results) ==
    Bind(SumSeq([c \in 1..Len(results) |-> results[c].original_tokens]), LAMBDA total_orig :
    Bind(SumSeq([c \in 1..Len(results) |-> results[c].compressed_tokens]), LAMBDA total_comp :
        CompressionResult(s,
            JoinSpace([c \in 1..Len(results) |->
                          results[Len(results) + 1 - c].compressed_text]),
            total_orig, total_comp, EmptyScores, <<>>,
            CompressionRatio(total_comp, total_orig))))

CombineChunks(s, results) ==
    Bind(SumSeq([c \in 1..Len(results) |-> results[c].original_tokens]), LAMBDA total_orig :
    Bind(SumSeq([c \in 1..Len(results) |-> results[c].compressed_tokens]), LAMBDA total_comp :
        CompressionResult(s,
            JoinSpace([c \in 1..Len(results) |-> results[c].compressed_text]),
            total_orig, total_comp, EmptyScores, <<>>,
            CompressionRatio(total_comp, total_orig))))

compress_chunks(cfg, s, q, ratio) ==
    Bind(Chunks(cfg, s), LAMBDA chs :
    Bind(CompressEach(cfg, chs, q, ratio), LAMBDA results :
        IF results # <<>> /\ results[Len(results)].status = "raised"
        THEN Raised(results[Len(results)].error)
        ELSE CombineChunks(s, results)))

-----------------------------------------------------------------------------
(* Inputs *)

EmptyString == <<>>
Question == <<Hello>>
Queries == {None, Some(EmptyString), Some(Question)}

Texts(n) == SeqsUpTo(Vocab, n)
RawValues == 0..MaxRaw

(* the longest token sequence the encoder can see for a text *)
TokenCount(s) == Len(ContentTokens(s)) + 2

Flat(n) == [i \in 1..n |-> 0]
Ramp(n) == [i \in 1..n |-> i % (MaxRaw + 1)]

MinTokensChoices == (0..MaxMinTokens) \cup {DefaultMinTokens}
HardThresholdChoices == {0, 5, 10}
WeightChoices == {<<4, 3, 3>>, <<4, 3, 5>>, <<0, 0, 3>>, <<5, 5, 0>>, <<2, 0, 1>>}
ChunkSizeChoices == {3, 5, DefaultChunkSize}

(* a second configuration that differs from cfg in query_weight only *)
OtherQueryWeight(cfg) == [cfg EXCEPT !.query_weight = (cfg.query_weight + 4) % 11]

NoResult == [status |-> "none"]
NoLocals == [error |-> "none", tokens |-> <<>>]

InitCall ==
    /\ configAlt = OtherQueryWeight(config)
    /\ pc = "start"
    /\ result = NoResult
    /\ resultAlt = NoResult
    /\ locals = NoLocals
    /\ chunks = <<>>
    /\ chunk_results = <<>>

(* selection: every score pattern, keep floor and hard threshold *)
InitSelection ==
    /\ config \in {[CompressorConfig EXCEPT !.min_tokens = m, !.hard_threshold = h] :
                      m \in MinTokensChoices, h \in HardThresholdChoices}
    /\ text \in Texts(MaxWords)
    /\ query = None
    /\ target_ratio = None
    /\ attentions \in [1..TokenCount(text) -> RawValues]
    /\ hidden = Flat(TokenCount(text))
    /\ sent_sims = Flat(Len(SplitSentences(text)))

(* fusion: every weight triple, with and without a query *)
InitFusion ==
    /\ config \in {[CompressorConfig EXCEPT !.attention_weight = w[1],
                                            !.semantic_weight = w[2],
                                            !.query_weight = w[3],
                                            !.use_query_aware = a,
                                            !.min_tokens = m] :
                      w \in WeightChoices, a \in BOOLEAN, m \in {1, DefaultMinTokens}}
    /\ text \in Texts(MaxWords)
    /\ query \in Queries
    /\ target_ratio = None
    /\ attentions \in {Flat(TokenCount(text)), Ramp(TokenCount(text))}
    /\ hidden \in {Flat(TokenCount(text)), Ramp(TokenCount(text))}
    /\ sent_sims \in [1..Len(SplitSentences(text)) -> RawValues]

(* chunking: longer documents and chunk sizes of a few words *)
InitChunking ==
    /\ config \in {[CompressorConfig EXCEPT !.chunk_size = c, !.min_tokens = m,
                                            !.hard_threshold = h] :
                      c \in ChunkSizeChoices, m \in {1, DefaultMinTokens}, h \in {0, 5}}
    /\ text \in SeqsUpTo(ChunkVocab, MaxChunkWords)
    /\ query \in {None, Some(Question)}
    /\ target_ratio \in {None, Some(50)}
    /\ attentions \in {Flat(TokenCount(text)), Ramp(TokenCount(text))}
    /\ hidden = Ramp(TokenCount(text))
    /\ sent_sims = Ramp(Len(SplitSentences(text)))

(* the parts of the state a run of compress leaves alone *)
SingletonIdle ==
    /\ _default_compressor = None
    /\ constructed = <<>>
    /\ returned = None

BenchIdle ==
    /\ valid_data = <<>>
    /\ name = 1
    /\ i_item = 0
    /\ correct = 0
    /\ total_saved_pct = <<>>
    /\ summary_results = <<>>
    /\ visited = <<>>
    /\ bench_pc = "idle"

BiasIdle ==
    /\ position_scores = EmptyScores
    /\ position_result = EmptyScores

Init ==
    /\ (InitSelection \/ InitFusion \/ InitChunking) /\ InitCall
    /\ SingletonIdle /\ BenchIdle /\ BiasIdle

-----------------------------------------------------------------------------
(* Actions: one call of compress or of compress_chunks on the inputs *)

Compress ==
    /\ pc = "start"
    /\ pc' = "compress"
    /\ result' = compress(config, text, query, target_ratio)
    /\ resultAlt' = compress(configAlt, text, query, target_ratio)
    /\ locals' = CompressLocals(config, text, query, target_ratio)
    /\ UNCHANGED <<config, configAlt, text, query, target_ratio,
                   attentions, hidden, sent_sims, chunks, chunk_results>>
    /\ UNCHANGED <<singletonVars, benchVars, biasVars>>

CompressChunks ==
    /\ pc = "start"
    /\ pc' = "compress_chunks"
    /\ chunks' = Chunks(config, text)
    /\ chunk_results' = CompressEach(config, Chunks(config, text), query, target_ratio)
    /\ result' = compress_chunks(config, text, query, target_ratio)
    /\ resultAlt' = compress_chunks(configAlt, text, query, target_ratio)
    /\ UNCHANGED <<config, configAlt, text, query, target_ratio,
                   attentions, hidden, sent_sims, locals>>
    /\ UNCHANGED <<singletonVars, benchVars, biasVars>>

Next == Compress \/ CompressChunks

Spec == Init /\ [][Next]_vars

-----------------------------------------------------------------------------
(* The module-level singleton and the convenience functions *)

MaxLoads == 3

(* word_count > 400 *)
ChunkingWordLimit == 400

(* ScratchCompressor.__init__: self.config = config or CompressorConfig(), *)
(* then the scorer is built, which loads the encoder and the embedder.     *)
(* id tells the instances apart: it is the rank of the construction.       *)
ScratchCompressor(cfgArg, id) ==
    [id |-> id, config |-> IF cfgArg = None THEN CompressorConfig ELSE cfgArg[1]]

(* if _default_compressor is None or config is not None *)
Constructs(cfgArg) == _default_compressor = None \/ cfgArg # None

(* get_compressor: the value of _default_compressor after the call *)
get_compressor(cfgArg) ==
    IF Constructs(cfgArg)
    THEN Some(ScratchCompressor(cfgArg, Len(constructed) + 1))
    ELSE _default_compressor

(* the constructions so far, after a call of get_compressor *)
ConstructedAfter(cfgArg) ==
    IF Constructs(cfgArg)
    THEN Append(constructed, ScratchCompressor(cfgArg, Len(constructed) + 1).config)
    ELSE constructed

(* the body shared by compress and compress_with_metrics of the module *)
CompressAuto(compressor, s, q, ratio) ==
    IF WordCount(s) > ChunkingWordLimit
    THEN compress_chunks(compressor.config, s, q, ratio)
    ELSE compress(compressor.config, s, q, ratio)

Returns(f, value) == Some([function |-> f, status |-> "returned", value |-> value])
Raises(f, e) == Some([function |-> f, status |-> "raised", value |-> e])

(* compress(text, query, target_ratio) -> str *)
module_compress(s, q, ratio) ==
    Bind(CompressAuto(get_compressor(None)[1], s, q, ratio), LAMBDA r :
        IF r.status = "raised" THEN Raises("compress", r.error)
        ELSE Returns("compress", r.compressed_text))

(* compress_with_metrics(text, query, target_ratio) -> CompressionResult *)
compress_with_metrics(s, q, ratio) ==
    Bind(CompressAuto(get_compressor(None)[1], s, q, ratio), LAMBDA r :
        IF r.status = "raised" THEN Raises("compress_with_metrics", r.error)
        ELSE Returns("compress_with_metrics", r))

ShortText == <<Hello, WorldDot>>
ModuleTexts == {<<Hello>>, ShortText}

ZeroWeights == [CompressorConfig EXCEPT !.attention_weight = 0, !.semantic_weight = 0]
ConfigArgs ==
    {None, Some(CompressorConfig), Some([CompressorConfig EXCEPT !.min_tokens = 1]),
     Some(ZeroWeights)}

InitSingleton ==
    /\ config = CompressorConfig
    /\ text = EmptyString
    /\ query = None
    /\ target_ratio = None
    /\ attentions = Ramp(TokenCount(ShortText))
    /\ hidden = Flat(TokenCount(ShortText))
    /\ sent_sims = Flat(1)
    /\ InitCall
    /\ SingletonIdle /\ BenchIdle /\ BiasIdle

GetCompressor ==
    /\ \E cfgArg \in ConfigArgs :
          /\ Constructs(cfgArg) => Len(constructed) < MaxLoads
          /\ _default_compressor' = get_compressor(cfgArg)
          /\ constructed' = ConstructedAfter(cfgArg)
          /\ returned' = Returns("get_compressor", get_compressor(cfgArg)[1])
    /\ UNCHANGED <<compressVars, benchVars, biasVars>>

ModuleCompress ==
    /\ Constructs(None) => Len(constructed) < MaxLoads
    /\ \E s \in ModuleTexts, q \in {None, Some(Question)} :
          returned' = module_compress(s, q, Some(DefaultTargetRatio))
    /\ _default_compressor' = get_compressor(None)
    /\ constructed' = ConstructedAfter(None)
    /\ UNCHANGED <<compressVars, benchVars, biasVars>>

CompressWithMetrics ==
    /\ Constructs(None) => Len(constructed) < MaxLoads
    /\ \E s \in ModuleTexts, q \in {None, Some(Question)} :
          returned' = compress_with_metrics(s, q, Some(DefaultTargetRatio))
    /\ _default_compressor' = get_compressor(None)
    /\ constructed' = ConstructedAfter(None)
    /\ UNCHANGED <<compressVars, benchVars, biasVars>>

NextSingleton == GetCompressor \/ ModuleCompress \/ CompressWithMetrics

SpecSingleton == InitSingleton /\ [][NextSingleton]_vars

-----------------------------------------------------------------------------
(* The benchmark loop run_longbench_eval of longbench.py *)

MaxItems == 2

(* configs, in the order of the dict *)
Baseline == 1
TtcBear1 == 2
ScratchQa == 3
ConfigNames == <<"Baseline", "ttc (Bear-1)", "scratch qa">>

(* an item of valid_data: its gold answer and count_tokens(item['context']) *)
Items == {[answer |-> "A", orig_len |-> 0], [answer |-> "B", orig_len |-> 2]}

(* what call_openrouter returns: a bare letter, or text without any letter *)
Responses == {"A", "B", "I do not know"}

(* verify_answer: a bare letter is compared with the gold answer; text    *)
(* that matches none of the patterns is wrong.                            *)
verify_answer(predicted, gold) ==
    IF predicted \in {"A", "B", "C", "D"} THEN predicted = gold ELSE FALSE

(* count_tokens(compressed_context): the baseline returns the context,    *)
(* ttc_compress returns the service's output or, when the service fails,  *)
(* the context, and the scratch compressor returns its compressed text.   *)
CompLens(n, item) ==
    IF n = Baseline THEN {item.orig_len} ELSE {1, item.orig_len}

(* 1 - (comp_len / orig_len) if orig_len > 0 else 0, in thousandths *)
SavedPct(orig_len, comp_len) ==
    IF orig_len > 0 THEN 1000 - (comp_len * 1000) \div orig_len ELSE 0

(* func(item['context'], item['question']) can raise only for the scratch *)
(* compressor: ttc_compress catches the service's errors itself, while an *)
(* exception of the encoder or the embedder leaves scratch_compress_qa.   *)
CanRaiseInCompression(n) == n = ScratchQa

(* the entry appended to summary_results *)
SummaryEntry(n, acc_correct, saved, n_items) ==
    [Config |-> ConfigNames[n],
     raw_acc |-> <<acc_correct, n_items>>,
     TokenReduction |-> SumSeq(saved) \div n_items]

Aborted == bench_pc \in {"ZeroDivisionError", "compression error"}

InitBench ==
    /\ config = CompressorConfig
    /\ text = EmptyString
    /\ query = None
    /\ target_ratio = None
    /\ attentions = Flat(TokenCount(EmptyString))
    /\ hidden = Flat(TokenCount(EmptyString))
    /\ sent_sims = Flat(1)
    /\ InitCall
    /\ SingletonIdle /\ BiasIdle
    /\ valid_data \in SeqsUpTo(Items, MaxItems)
    /\ name = Baseline
    /\ i_item = 0
    /\ correct = 0
    /\ total_saved_pct = <<>>
    /\ summary_results = <<>>
    /\ visited = <<>>
    /\ bench_pc = "config"

(* for name, func in configs.items(): the counters are reset *)
StartConfig ==
    /\ bench_pc = "config"
    /\ correct' = 0
    /\ total_saved_pct' = <<>>
    /\ i_item' = 0
    /\ bench_pc' = "items"
    /\ UNCHANGED <<valid_data, name, summary_results, visited>>
    /\ UNCHANGED <<compressVars, singletonVars, biasVars>>

(* one pass of the item loop in which the compression returns; the call   *)
(* of the chat endpoint returns a response or raises, which is caught.    *)
ProcessItem ==
    /\ bench_pc = "items"
    /\ i_item < Len(valid_data)
    /\ \E comp_len \in CompLens(name, valid_data[i_item + 1]),
          api \in [raised : {TRUE}] \cup [raised : {FALSE}, response : Responses] :
          /\ total_saved_pct' =
                 Append(total_saved_pct,
                        SavedPct(valid_data[i_item + 1].orig_len, comp_len))
          /\ correct' =
                 IF ~api.raised /\ verify_answer(api.response, valid_data[i_item + 1].answer)
                 THEN correct + 1 ELSE correct
    /\ visited' = Append(visited, <<name, i_item + 1>>)
    /\ i_item' = i_item + 1
    /\ UNCHANGED <<valid_data, name, summary_results, bench_pc>>
    /\ UNCHANGED <<compressVars, singletonVars, biasVars>>

(* one pass of the item loop in which func raises: the call is outside    *)
(* the try block, so the exception leaves run_longbench_eval.             *)
CompressionRaises ==
    /\ bench_pc = "items"
    /\ i_item < Len(valid_data)
    /\ CanRaiseInCompression(name)
    /\ visited' = Append(visited, <<name, i_item + 1>>)
    /\ bench_pc' = "compression error"
    /\ UNCHANGED <<valid_data, name, i_item, correct, total_saved_pct, summary_results>>
    /\ UNCHANGED <<compressVars, singletonVars, biasVars>>

(* after the item loop: accuracy = (correct / len(valid_data)) * 100 and  *)
(* the summary entry; the division raises when valid_data is empty.       *)
FinishConfig ==
    /\ bench_pc = "items"
    /\ i_item = Len(valid_data)
    /\ IF Len(valid_data) = 0
       THEN /\ bench_pc' = "ZeroDivisionError"
            /\ UNCHANGED <<name, summary_results>>
       ELSE /\ summary_results' =
                   Append(summary_results,
                          SummaryEntry(name, correct, total_saved_pct, Len(valid_data)))
            /\ name' = name + 1
            /\ bench_pc' = IF name = Len(ConfigNames) THEN "done" ELSE "config"
    /\ UNCHANGED <<valid_data, i_item, correct, total_saved_pct, visited>>
    /\ UNCHANGED <<compressVars, singletonVars, biasVars>>

NextBench == StartConfig \/ ProcessItem \/ CompressionRaises \/ FinishConfig

SpecBench == InitBench /\ [][NextBench]_vars

-----------------------------------------------------------------------------
(* One call of _apply_position_bias on an arbitrary score array *)

MaxBiasLen == 12

(* fused scores before the bias: positive, so that a boost is visible *)
BiasInputs == {ScoreArray(num, 1, FALSE) : num \in SeqsUpTo({1, 2}, MaxBiasLen)}

InitBias ==
    /\ config = CompressorConfig
    /\ text = EmptyString
    /\ query = None
    /\ target_ratio = None
    /\ attentions = Flat(TokenCount(EmptyString))
    /\ hidden = Flat(TokenCount(EmptyString))
    /\ sent_sims = Flat(1)
    /\ InitCall
    /\ SingletonIdle /\ BenchIdle
    /\ position_scores \in BiasInputs
    /\ position_result = EmptyScores

ApplyPositionBias ==
    /\ pc = "start"
    /\ pc' = "_apply_position_bias"
    /\ position_result' = _apply_position_bias(config, position_scores)
    /\ UNCHANGED <<config, configAlt, text, query, target_ratio, attentions, hidden,
                   sent_sims, result, resultAlt, locals, chunks, chunk_results>>
    /\ UNCHANGED <<position_scores, singletonVars, benchVars>>

NextBias == ApplyPositionBias

SpecBias == InitBias /\ [][NextBias]_vars

-----------------------------------------------------------------------------
(* Properties *)

Returned == result.status = "returned"
CompressReturned == pc = "compress" /\ Returned
ChunksReturned == pc = "compress_chunks" /\ Returned
KeptCount == Len(result.kept_indices)
SomeDropped == KeptCount < locals.orig_tokens
ScoresAtLeast(t) == {i \in 1..locals.orig_tokens : Geq(ScoreAt(locals.scores, i), t)}
KthLargest == Scalar(PyIndex(SortDescending(locals.scores.num), locals.keep_count - 1),
                     locals.scores.den, locals.scores.eps)
SmallestScore == Scalar(SetMin(Range(locals.scores.num)),
                        locals.scores.den, locals.scores.eps)

(* C1: every compress call keeps at least min(min_tokens, N) indices, N  *)
(* the number of scored encoder tokens.                                  *)
C1_KeptAtLeastMinTokens ==
    CompressReturned =>
        KeptCount >= IntMin(config.min_tokens, locals.orig_tokens)

(* C2: kept_indices is strictly increasing and every index is a position *)
(* 0..N-1 of the scored token sequence.                                  *)
C2_KeptIndicesIncreasing ==
    CompressReturned =>
        /\ \A j \in 1..(KeptCount - 1) :
              result.kept_indices[j] < result.kept_indices[j + 1]
        /\ \A j \in 1..KeptCount :
              result.kept_indices[j] \in 0..(locals.orig_tokens - 1)

(* a call that keeps a later, lower-scored token and an earlier,         *)
(* higher-scored one, on both sides of a dropped token                   *)
C2_Witness ==
    /\ CompressReturned
    /\ SomeDropped
    /\ \E j \in 1..(KeptCount - 1) :
          /\ result.kept_indices[j + 1] > result.kept_indices[j] + 1
          /\ locals.scores.num[result.kept_indices[j] + 1]
                < locals.scores.num[result.kept_indices[j + 1] + 1]
    /\ \E j \in 1..(KeptCount - 1) :
          locals.scores.num[result.kept_indices[j] + 1]
             > locals.scores.num[result.kept_indices[j + 1] + 1]

C4_VerbatimWhenAllKept ==
    (CompressReturned /\ locals.keep_count >= locals.orig_tokens) =>
        /\ KeptCount = locals.orig_tokens
        /\ result.compressed_text = text

(* C5: the weights multiplied into the signals of a fusion sum to 1.     *)
C5_WeightsSumToOne ==
    (pc = "compress" /\ locals.error = "none") =>
        SumSeq([j \in 1..Len(locals.weights) |-> locals.weights[j][1]])
            = locals.weights[1][2]

(* C6: without a query, two compress calls whose configurations differ   *)
(* in query_weight only return the same scores, kept indices and text.   *)
C6_QueryWeightIgnoredWithoutQuery ==
    (pc = "compress" /\ query \in {None, Some(EmptyString)}) => result = resultAlt

(* a call without a query, under two different query weights, that       *)
(* scores tokens differently and drops some                              *)
C6_Witness ==
    /\ CompressReturned
    /\ query = Some(EmptyString)
    /\ config.use_query_aware
    /\ config.query_weight # configAlt.query_weight
    /\ locals.scores.eps
    /\ SomeDropped
    /\ KeptCount > 2

-----------------------------------------------------------------------------
(* Properties of compress_chunks *)

RECURSIVE InChunkOrder(_, _)
InChunkOrder(results, c) ==
    IF c > Len(results) THEN <<>>
    ELSE results[c].compressed_text \o InChunkOrder(results, c + 1)

TotalWords == SumSeq([j \in 1..Len(SplitSentences(text)) |->
                         WordCount(SplitSentences(text)[j])])
OverChunkLimit(words) == words * 10 > config.chunk_size * 8

(* C7: compress_chunks compresses every chunk with compress, in chunk    *)
(* order; its text is the chunk texts joined in that order, its counts   *)
(* the sums of the chunks' counts, its scores and kept indices empty.    *)
C7_ChunksJoinedInOrder ==
    ChunksReturned =>
        /\ Len(chunk_results) = Len(chunks)
        /\ \A c \in 1..Len(chunks) :
              chunk_results[c] = compress(config, chunks[c], query, target_ratio)
        /\ result.compressed_text = InChunkOrder(chunk_results, 1)
        /\ result.original_tokens =
              SumSeq([c \in 1..Len(chunks) |-> chunk_results[c].original_tokens])
        /\ result.compressed_tokens =
              SumSeq([c \in 1..Len(chunks) |-> chunk_results[c].compressed_tokens])
        /\ result.token_scores.num = <<>>
        /\ result.kept_indices = <<>>

(* a document of three chunks whose compressed texts differ, the first   *)
(* one shortened                                                         *)
C7_Witness ==
    /\ ChunksReturned
    /\ Len(chunks) >= 3
    /\ chunk_results[1].compressed_text # chunk_results[2].compressed_text
    /\ chunk_results[1].compressed_text # <<>>
    /\ chunk_results[2].compressed_text # <<>>
    /\ Len(chunk_results[1].kept_indices) < Len(Tokenize(chunks[1], config.chunk_size))

(* C8, as stated: a document with more words than chunk_size * 0.8 is    *)
(* split into at least 2 chunks.                                         *)
C8_Original ==
    (pc = "compress_chunks" /\ OverChunkLimit(TotalWords)) => Len(chunks) >= 2

(* C8, amended: a document of at least two sentences with more words     *)
(* than chunk_size * 0.8 is split into at least 2 chunks.                *)
C8_Amended ==
    (pc = "compress_chunks" /\ OverChunkLimit(TotalWords)
        /\ Len(SplitSentences(text)) >= 2) => Len(chunks) >= 2

(* two sentences that fit a chunk each but not one chunk together        *)
C8_Witness ==
    /\ pc = "compress_chunks"
    /\ Len(SplitSentences(text)) = 2
    /\ OverChunkLimit(TotalWords)
    /\ \A j \in 1..2 : ~OverChunkLimit(WordCount(SplitSentences(text)[j]))
    /\ Len(chunks) = 2

(* C9, as stated: every chunk has strictly fewer words than              *)
(* chunk_size * 0.8.                                                     *)
C9_Original ==
    pc = "compress_chunks" =>
        \A c \in 1..Len(chunks) : WordCount(chunks[c]) * 10 < config.chunk_size * 8

(* C9, amended: every chunk packed from two or more sentences has at     *)
(* most chunk_size * 0.8 words.                                          *)
C9_Amended ==
    pc = "compress_chunks" =>
        \A c \in 1..Len(chunks) :
            Len(SplitSentences(chunks[c])) >= 2 => ~OverChunkLimit(WordCount(chunks[c]))

(* a chunk of two sentences that holds exactly chunk_size * 0.8 words,   *)
(* followed by another chunk                                             *)
C9_Witness ==
    /\ pc = "compress_chunks"
    /\ Len(chunks) >= 2
    /\ Len(SplitSentences(chunks[1])) >= 2
    /\ WordCount(chunks[1]) * 10 = config.chunk_size * 8

(* C10: on an input of zero tokens compress and compress_chunks return   *)
(* without dividing by zero, with ratio 1.0 and the input as text.       *)
C10_DegenerateInput ==
    (pc \in {"compress", "compress_chunks"} /\ count_tokens(text) = 0) =>
        /\ Returned
        /\ result.compression_ratio = <<1, 1>>
        /\ result.compressed_text = text

(* C11: across any sequence of get_compressor, compress and               *)
(* compress_with_metrics calls the models are loaded at most once per     *)
(* distinct configuration: no two constructions were made with equal      *)
(* configurations.                                                        *)
C11_LoadedOncePerConfiguration ==
    \A a, b \in DOMAIN constructed : constructed[a] = constructed[b] => a = b

(* C12: a failure while processing one item never aborts the benchmark    *)
(* run: the correct count never exceeds the number of items processed,    *)
(* and a run that has stopped has visited every item under every          *)
(* configuration.                                                         *)
C12_EveryItemVisited ==
    /\ correct <= i_item
    /\ bench_pc \in {"done", "ZeroDivisionError", "compression error"} =>
           \A n \in 1..Len(ConfigNames), k \in 1..Len(valid_data) :
               <<n, k>> \in Range(visited)

(* the content tokens of the call: those that are not boundary tokens *)
ContentPositions == {i \in 1..Len(locals.tokens) : locals.tokens[i] \notin all_special_ids}
SpecialPositions == {i \in 1..Len(locals.tokens) : locals.tokens[i] \in all_special_ids}

(* C13: the keep count of compress is max(min_tokens, floor(n *           *)
(* target_ratio)) with n the number of content tokens, the boundary       *)
(* tokens of the encoder not counted.                                     *)
C13_KeepCountFromContentTokens ==
    CompressReturned =>
        locals.keep_count =
            IntMax(config.min_tokens,
                   (Cardinality(ContentPositions) * EffectiveTarget(config, target_ratio))
                       \div RatioDen)

(* C14: every boundary token has score 0 in the scores score_tokens       *)
(* returns, also when there are only boundary tokens or when every        *)
(* content score is 0.                                                    *)
C14_SpecialTokensScoreZero ==
    CompressReturned => \A i \in SpecialPositions : locals.scores.num[i] = 0

(* the positions whose score was multiplied by f tenths *)
BiasApplied == pc = "_apply_position_bias"
BiasLen == Len(position_scores.num)
MultipliedBy(f) ==
    {i \in 1..BiasLen :
        position_result.num[i] * position_scores.den * BoostDen
            = position_scores.num[i] * position_result.den * f}
StartBoosted == MultipliedBy(config.position_boost_start)
EndBoosted == MultipliedBy(config.position_boost_end)
NotBoosted == MultipliedBy(BoostDen)

(* C15 as stated: unchanged below 10 tokens; from 10 tokens on the first  *)
(* 10% of positions get the start boost, the last 10% the end boost, the  *)
(* regions are disjoint and of the same size, the rest is unchanged.      *)
C15_Original ==
    BiasApplied =>
        IF BiasLen < PositionBiasFloor
        THEN position_result = position_scores
        ELSE /\ StartBoosted = 1..(BiasLen \div 10)
             /\ EndBoosted = ((BiasLen * 9) \div 10 + 1)..BiasLen
             /\ StartBoosted \cap EndBoosted = {}
             /\ Cardinality(StartBoosted) = Cardinality(EndBoosted)
             /\ NotBoosted = (1..BiasLen) \ (StartBoosted \cup EndBoosted)

(* C15 amended: the start region holds floor(n / 10) positions, the end   *)
(* region the n - floor(0.9 n) positions from index floor(0.9 n) on; the  *)
(* sizes agree when n is a multiple of 10 and the end region has one      *)
(* position more otherwise.                                               *)
C15_Amended ==
    BiasApplied =>
        IF BiasLen < PositionBiasFloor
        THEN position_result = position_scores
        ELSE /\ StartBoosted = 1..(BiasLen \div 10)
             /\ EndBoosted = ((BiasLen * 9) \div 10 + 1)..BiasLen
             /\ StartBoosted \cap EndBoosted = {}
             /\ Cardinality(EndBoosted) =
                    Cardinality(StartBoosted) + (IF BiasLen % 10 = 0 THEN 0 ELSE 1)
             /\ NotBoosted = (1..BiasLen) \ (StartBoosted \cup EndBoosted)

C15_Witness ==
    /\ BiasApplied
    /\ BiasLen = PositionBiasFloor + 1
    /\ Cardinality(StartBoosted) = 1
    /\ Cardinality(EndBoosted) = 2

(* the score at position p of the call, and the orders on scores *)
ScoreOf(p) == ScoreAt(locals.scores, p)
SameScore(a, b) == Geq(a, b) /\ Geq(b, a)
Above(a, b) == ~Geq(b, a)
KeptPositions == {result.kept_indices[j] + 1 : j \in 1..KeptCount}
DroppedPositions == (1..locals.orig_tokens) \ KeptPositions

(* the positions that hold the k-th largest score, 1 <= k <= N: fewer     *)
(* than k scores are above it and at least k scores reach it.             *)
KthLargestPositions(k) ==
    {p \in 1..locals.orig_tokens :
        /\ Cardinality({q \in 1..locals.orig_tokens : Above(ScoreOf(q), ScoreOf(p))}) < k
        /\ Cardinality({q \in 1..locals.orig_tokens : Geq(ScoreOf(q), ScoreOf(p))}) >= k}

(* the claimed threshold: 0 if k >= N, else the larger of the k-th        *)
(* largest score and hard_threshold                                       *)
IsClaimedThreshold(t) ==
    IF locals.keep_count >= locals.orig_tokens THEN SameScore(t, Zero)
    ELSE \E p \in KthLargestPositions(locals.keep_count) :
            /\ Geq(t, ScoreOf(p)) /\ Geq(t, HardThreshold(config))
            /\ SameScore(t, ScoreOf(p)) \/ SameScore(t, HardThreshold(config))

TieAcrossTheCut ==
    /\ locals.keep_count >= 1
    /\ locals.keep_count < locals.orig_tokens
    /\ \E p \in KthLargestPositions(locals.keep_count) :
          /\ Geq(ScoreOf(p), HardThreshold(config))
          /\ Cardinality({q \in 1..locals.orig_tokens : Geq(ScoreOf(q), ScoreOf(p))})
                 > locals.keep_count

DocumentSentences == SplitSentences(text)
PackedSentences == ChunkSentences(config, text)

(* C17: the packing of compress_chunks is a partition of the sentence     *)
(* sequence into runs of consecutive sentences: the chunks, one after the *)
(* other, are the sentences of the document in their order, each chunk    *)
(* holds at least one sentence, and the chunk texts are the joined        *)
(* sentences of the chunks.                                               *)
C17_PackingIsPartition ==
    pc = "compress_chunks" =>
        /\ Flatten(PackedSentences) = DocumentSentences
        /\ \A c \in 1..Len(PackedSentences) : Len(PackedSentences[c]) >= 1
        /\ Len(chunks) = Len(PackedSentences)
        /\ \A c \in 1..Len(chunks) : chunks[c] = JoinSpace(PackedSentences[c])

C17_Witness ==
    /\ pc = "compress_chunks"
    /\ Len(DocumentSentences) >= 3
    /\ Len(chunks) >= 2
    /\ \E c \in 1..Len(PackedSentences) : Len(PackedSentences[c]) >= 2

====
